---- MODULE Spec2Model ----
(***************************************************************************)
(* Model of the BMS -> Webull paper router (src/app.py).                   *)
(*                                                                         *)
(* Units: money is counted in cents (5000.00 dollars = 500000), option     *)
(* deltas in hundredths (0.30 = 30), time in whole seconds, expiry dates   *)
(* in whole days from today.  The amounts drawn as inputs are multiples of *)
(* 0.25, which a float holds exactly; the one amount the code divides by   *)
(* that a float does not hold exactly is the literal 0.01, the double just *)
(* above one cent.                                                         *)
(*                                                                         *)
(* Scheduling: `trade` is an `async def` handler whose only await is the    *)
(* read of the body (line 170).  Any number of requests may be suspended   *)
(* there; the event loop resumes one of them and runs it to its response   *)
(* before it resumes another.  Spec takes the requests one after another,  *)
(* SpecLoop takes overlapping requests in dry-run mode.  lazy_login        *)
(* carries its own lock and is also driven directly by concurrent threads  *)
(* (SpecGate); is_dup and the candidate ranking are also driven on their   *)
(* own (SpecDedup, SpecSelector).                                          *)
(***************************************************************************)
EXTENDS Integers, Sequences, FiniteSets, TLC

VARIABLES
    secretSet,   \* BMS_WEBHOOK_SECRET is non-empty
    credsSet,    \* WEBULL_USERNAME, WEBULL_PASSWORD and WEBULL_TRADING_PIN are all non-empty
    dryRun,      \* DRY_RUN
    now,         \* the last value time.time() returned
    seen,        \* _seen: idempotency key -> time of insertion
    logged_in,   \* _logged_in
    login_lock,  \* _login_lock: the set of threads holding it (empty or one thread)
    pc,          \* per thread: position in trade / lazy_login
    req,         \* per thread: the request being handled and its result
    calls,       \* per thread: the broker calls it made since it last went idle, in order
    gateRes,     \* per thread: how the last lazy_login call ended
    started,     \* number of invocations (requests or direct gate calls) so far
    admittedAt,  \* history: key -> time is_dup last returned False for it
    failed503,   \* history: keys whose last admitting request ended with the 503
    overlap,     \* history, per suspended request: keys admitted since it arrived
    sizer,       \* inputs and results of the sizing functions (SpecSizer)
    picker,      \* input and result of the candidate ranking (SpecSelector)
    lookup       \* the last direct call of is_dup and its answer (SpecDedup)

vars == <<secretSet, credsSet, dryRun, now, seen, logged_in, login_lock,
          pc, req, calls, gateRes, started,
          admittedAt, failed503, overlap, sizer, picker, lookup>>

config  == <<secretSet, credsSet, dryRun>>
session == <<logged_in, login_lock>>
history == <<admittedAt, failed503, overlap>>
pure    == <<sizer, picker, lookup>>

(***************************************************************************)
(* Bounds                                                                  *)
(***************************************************************************)
NumThreads  == 2
MaxRequests == 2
MaxGateCalls == 3

Threads == 1..NumThreads

(***************************************************************************)
(* Program constants                                                       *)
(***************************************************************************)
TTL                  == 6*60*60
NOTIONAL_DEFAULT     == 500000
DEFAULT_DELTA_TARGET == 30
DEFAULT_DTE_MAX      == 7
PX_FLOOR             == 1
SHARES_PER_CONTRACT  == 100
PREMIUM_FLOOR        == 5
CRYPTO               == {"BTC", "ETH", "BTCUSD", "ETHUSD"}

Max(a, b) == IF a >= b THEN a ELSE b

\* Optional[...] values: None is the empty sequence, a value x is <<x>>.
None      == <<>>
Some(x)   == <<x>>
IsNone(o) == Len(o) = 0
Val(o)    == o[1]

(***************************************************************************)
(* Inputs                                                                  *)
(***************************************************************************)
Keys       == {"k1", "k2"}
Headers    == {"absent", "valid", "invalid"}
Biases     == {"CALL", "PUT", "NEUTRAL"}
Symbols    == {"QQQ", "btc"}
Products   == {"equity", "option"}
Prices     == {0, 750000}
Rights     == {None}
Contracts  == {None, Some(0), Some(-1), Some(2)}
Elapsed    == {1, TTL, TTL + 1}

\* The option fields are read on the option path only (lines 198, 209); the
\* equity signals are drawn without them.
Signals ==
    [idempotency_key : Keys, bias : Biases, symbol : Symbols, product : {"equity"},
     price : Prices, right : {None}, contracts : {None}]
    \cup
    [idempotency_key : Keys, bias : Biases, symbol : Symbols, product : {"option"},
     price : Prices, right : Rights, contracts : Contracts]

\* A request body: malformed bytes, or the JSON of a signal.
Bodies == {None} \cup {Some(s) : s \in Signals}

(***************************************************************************)
(* Pure functions                                                          *)
(***************************************************************************)
\* hmac.compare_digest(mac, sig_header or ""): only the header equal to the
\* HMAC of the body passes; an absent header is compared as "".
verify_signature(secret, header) ==
    IF ~secret THEN TRUE ELSE header = "valid"

\* The purge loop with `>=` for `>`.
Purged_AtTtl(s, t) == [k \in {j \in DOMAIN s : ~(t - s[j] >= TTL)} |-> s[k]]

\* The purge loop of is_dup.
Purged(s, t) == [k \in {j \in DOMAIN s : ~(t - s[j] > TTL)} |-> s[k]]

\* is_dup without the expiry of the key that is looked up.
is_dup_result_NoExpiry(s, key, t) == key \in DOMAIN s

\* is_dup's return value and the _seen it leaves behind.
is_dup_result(s, key, t) == key \in DOMAIN Purged(s, t)

\* is_dup that stamps a fresh key again when it is looked up.
is_dup_seen_Refresh(s, key, t) ==
    LET p == Purged(s, t)
    IN  [k \in DOMAIN p \cup {key} |-> IF k = key THEN t ELSE p[k]]

\* is_dup without line 78: the key is looked up and never recorded.
is_dup_seen_NoInsert(s, key, t) == Purged(s, t)

\* is_dup that rebuilds _seen from the admitted key alone.
is_dup_seen_DropOthers(s, key, t) ==
    LET p == Purged(s, t)
    IN  IF key \in DOMAIN p THEN p ELSE [k \in {key} |-> t]

is_dup_seen(s, key, t) ==
    LET p == Purged(s, t)
    IN  IF key \in DOMAIN p THEN p
        ELSE [k \in DOMAIN p \cup {key} |-> IF k = key THEN t ELSE p[k]]

\* int(n // d) for n >= 0: the floor of the exact quotient of the two floats.
\* A divisor of PX_FLOOR is the float 0.01, a little more than one cent, so
\* a whole number n >= 1 of cents holds it n - 1 times (5000 // 0.01 = 499999).
FloorDiv(n, d) ==
    IF d = PX_FLOOR THEN (IF n >= 1 THEN n - 1 ELSE 0) ELSE n \div d

\* shares_from_notional without the outer max(1, ...).
shares_from_notional_NoMin(notional, px) ==
    FloorDiv(notional, Max(px, PX_FLOOR))

shares_from_notional(notional, px) ==
    Max(1, FloorDiv(notional, Max(px, PX_FLOOR)))

contracts_from_notional(notional, premium_per_share) ==
    LET per_contract == Max(premium_per_share * SHARES_PER_CONTRACT, PX_FLOOR)
    IN  Max(1, FloorDiv(notional, per_contract))

\* sym.upper()
Upper(sym) == IF sym = "btc" THEN "BTC" ELSE sym

ensure_equity_supported(sym) == Upper(sym) \notin CRYPTO

Side(bias) == IF bias = "CALL" THEN "BUY" ELSE "SELL"

\* The keys a lookup at time t would report as duplicates.
Fresh(s, t) == {k \in DOMAIN s : ~(t - s[k] > TTL)}

(***************************************************************************)
(* State                                                                   *)
(***************************************************************************)
NoReq == [valid |-> FALSE, sig |-> None, admitted |-> FALSE, outcome |-> "none",
          reason |-> "", freshBefore |-> {}, freshAfter |-> {},
          loggedBefore |-> FALSE, priorAge |-> None, rivals |-> {},
          target_exp |-> None, chosen |-> None, contracts |-> 0]

NoSizer == [notional |-> 0, px |-> 0, shares |-> 0, contracts |-> 0, done |-> FALSE]

NoPicker == [cands |-> <<>>, chosen |-> None, done |-> FALSE]

NoLookup == [key |-> "", dup |-> FALSE, priorAge |-> None,
             replays |-> [k \in Keys |-> 0], replayed |-> 0]

InitRouter ==
    /\ secretSet \in BOOLEAN
    /\ credsSet \in BOOLEAN
    /\ dryRun \in BOOLEAN
    /\ now = 0
    /\ seen = [k \in {} |-> 0]
    /\ logged_in = FALSE
    /\ login_lock = {}
    /\ pc = [t \in Threads |-> "idle"]
    /\ req = [t \in Threads |-> NoReq]
    /\ calls = [t \in Threads |-> <<>>]
    /\ gateRes = [t \in Threads |-> "none"]
    /\ started = 0
    /\ admittedAt = [k \in {} |-> 0]
    /\ failed503 = {}
    /\ overlap = [t \in Threads |-> {}]

Init == InitRouter /\ sizer = NoSizer /\ picker = NoPicker /\ lookup = NoLookup

Call(cap, ok, symbol, action, qty) ==
    [cap |-> cap, ok |-> ok, symbol |-> symbol, action |-> action, qty |-> qty]

\* The request of thread t ends with `outcome`; a key it admitted remembers it.
Finish(t, r, outcome, reason) ==
    /\ pc' = [pc EXCEPT ![t] = "done"]
    /\ req' = [req EXCEPT ![t] = [r EXCEPT !.outcome = outcome, !.reason = reason]]
    /\ failed503' = IF r.admitted /\ outcome = "503"
                    THEN failed503 \cup {Val(r.sig).idempotency_key}
                    ELSE IF r.admitted
                    THEN failed503 \ {Val(r.sig).idempotency_key}
                    ELSE failed503

(***************************************************************************)
(* trade, lines 170-189: everything before the session gate                *)
(***************************************************************************)
\* Screen without the bias filter of lines 182-183.
Screen_NoBiasFilter(sig, dup, dry) ==
    IF dup THEN "duplicate_ignored"
    ELSE IF ~ensure_equity_supported(sig.symbol) THEN "422"
    ELSE IF dry THEN "dry_run"
    ELSE "gate"

\* Screen without the DRY_RUN return of lines 188-189.
Screen_NoDryRun(sig, dup, dry) ==
    IF dup THEN "duplicate_ignored"
    ELSE IF sig.bias \notin {"CALL", "PUT"} THEN "ignored"
    ELSE IF ~ensure_equity_supported(sig.symbol) THEN "422"
    ELSE "gate"

\* Lines 179-189: what the handler does with a validated signal, given the
\* answer of is_dup: a reply, a 422, or "gate" to go on to lazy_login.
Screen(sig, dup, dry) ==
    IF dup THEN "duplicate_ignored"
    ELSE IF sig.bias \notin {"CALL", "PUT"} THEN "ignored"
    ELSE IF ~ensure_equity_supported(sig.symbol) THEN "422"
    ELSE IF dry THEN "dry_run"
    ELSE "gate"

ScreenReason(outcome) ==
    IF outcome = "ignored" THEN "neutral"
    ELSE IF outcome = "422" THEN "not crypto"
    ELSE ""

\* How long before `time` the key was last admitted, None if it never was.
PriorAge(key, time) ==
    IF key \in DOMAIN admittedAt THEN Some(time - admittedAt[key]) ELSE None

\* Lines 168-170: a request arrives and its handler is suspended in
\* `await req.body()`.  The handlers are told apart by the order of arrival.
Receive(t) ==
    /\ pc[t] = "idle"
    /\ \A u \in Threads : pc[u] = "idle" => t <= u
    /\ started < MaxRequests
    /\ started' = started + 1
    /\ pc' = [pc EXCEPT ![t] = "recv"]
    /\ overlap' = [overlap EXCEPT ![t] = {}]
    /\ UNCHANGED <<config, now, seen, session, req, calls, gateRes,
                   admittedAt, failed503, pure>>

\* A request that arrives while no other one is in flight.
ReceiveAlone(t) ==
    /\ \A u \in Threads : pc[u] = "idle"
    /\ Receive(t)

\* The keys admitted for others while the suspended handlers waited.
Overlapped(t, key) ==
    [u \in Threads |-> IF u # t /\ pc[u] = "recv" THEN overlap[u] \cup {key}
                       ELSE overlap[u]]

\* Lines 170-189: the event loop resumes the handler of t, which runs without
\* another await; no other handler runs between two of its steps.  The
\* request is drawn from the given headers and bodies, the clock from the
\* given delays.
TradeAdmitFrom(t, headers, bodies, delays) ==
    /\ pc[t] = "recv"
    /\ \A u \in Threads \ {t} : pc[u] \in {"idle", "recv"}
    /\ calls' = [calls EXCEPT ![t] = <<>>]
    /\ gateRes' = [gateRes EXCEPT ![t] = "none"]
    /\ \E header \in headers, body \in bodies, d \in delays :
         LET time == now + d     \* the clock when the handler runs
             r0   == [NoReq EXCEPT !.freshBefore = Fresh(seen, time),
                                   !.freshAfter = Fresh(seen, time),
                                   !.loggedBefore = logged_in,
                                   !.rivals = overlap[t]]
         IN
         IF ~verify_signature(secretSet, header)
         THEN /\ Finish(t, r0, "401", "Bad signature")
              /\ UNCHANGED <<now, seen, admittedAt, overlap>>
         ELSE IF IsNone(body)
         THEN /\ Finish(t, r0, "400", "Bad payload")
              /\ UNCHANGED <<now, seen, admittedAt, overlap>>
         ELSE
           LET sig   == Val(body)
               key   == sig.idempotency_key
               dup   == is_dup_result(seen, key, time)
               seen2 == is_dup_seen(seen, key, time)
               r1    == [r0 EXCEPT !.valid = TRUE, !.sig = body, !.admitted = ~dup,
                                   !.freshAfter = Fresh(seen2, time),
                                   !.priorAge = PriorAge(key, time)]
               step  == Screen(sig, dup, dryRun)
           IN
           /\ now' = time
           /\ seen' = seen2
           /\ admittedAt' = IF dup THEN admittedAt
                            ELSE [k \in DOMAIN admittedAt \cup {key} |->
                                    IF k = key THEN time ELSE admittedAt[k]]
           /\ overlap' = IF dup THEN overlap ELSE Overlapped(t, key)
           /\ IF step = "gate"
              THEN /\ pc' = [pc EXCEPT ![t] = "gate"]
                   /\ req' = [req EXCEPT ![t] = r1]
                   /\ failed503' = failed503 \ {key}
              ELSE Finish(t, r1, step, ScreenReason(step))
    /\ UNCHANGED <<config, session, started, pure>>

TradeAdmit(t) == TradeAdmitFrom(t, Headers, Bodies, Elapsed)

(***************************************************************************)
(* lazy_login, lines 27-38                                                 *)
(***************************************************************************)
\* Lines 32-35 without the second look at the flag.
lazy_login_locked_NoRecheck(li, creds) ==
    IF ~creds THEN "raise" ELSE "login"

\* Lines 32-35, run with the lock held: what the caller does next.
lazy_login_locked(li, creds) ==
    IF li THEN "return"
    ELSE IF ~creds THEN "raise"
    ELSE "login"

\* `with _login_lock` entered whether or not the lock is held.
LockFree_Ignored(lock) == TRUE

\* Line 31: `with _login_lock` is entered only while no thread holds the lock.
LockFree(lock) == lock = {}

\* The flag set in a `finally`, whatever wb.get_trade_token did.
FlagAfterToken_Finally(li, ok) == TRUE

\* Lines 37-38: the flag is set once wb.get_trade_token has returned.
FlagAfterToken(li, ok) == li \/ ok

\* An exception that leaves the lock with the thread that held it.
LockAfterRaise_Held(lock, t) == lock

\* Lines 31-36: an exception leaves the `with` block, which frees the lock.
LockAfterRaise(lock, t) == lock \ {t}

\* lazy_login returned (by line 30, by line 33 or after line 38) or raised.
GateOk(t)     == gateRes[t] \in {"fast", "rechecked", "logged"}
GateFailed(t) == gateRes[t] \in {"fail_creds", "fail_broker"}

GateReturn(t, res) ==
    /\ gateRes' = [gateRes EXCEPT ![t] = res]
    /\ pc' = [pc EXCEPT ![t] = "gate_done"]

\* Lines 29-30: the unlocked read of the flag.
GateFast(t) ==
    /\ pc[t] = "gate"
    /\ IF logged_in
       THEN GateReturn(t, "fast")
       ELSE /\ pc' = [pc EXCEPT ![t] = "gate_lock"]
            /\ UNCHANGED gateRes
    /\ UNCHANGED <<config, now, seen, session, req, calls, started,
                   history, pure>>

\* Lines 31-35: take the lock, look at the flag and the credentials again.
GateAcquire(t) ==
    /\ pc[t] = "gate_lock"
    /\ LockFree(login_lock)
    /\ LET step == lazy_login_locked(logged_in, credsSet)
       IN  IF step = "return"
           THEN GateReturn(t, "rechecked") /\ UNCHANGED login_lock
           ELSE IF step = "raise"
           THEN GateReturn(t, "fail_creds") /\ UNCHANGED login_lock
           ELSE /\ login_lock' = {t}
                /\ pc' = [pc EXCEPT ![t] = "gate_login"]
                /\ UNCHANGED gateRes
    /\ UNCHANGED <<config, now, seen, logged_in, req, calls, started,
                   history, pure>>

\* Line 36: wb.login; an exception leaves the `with` block and frees the lock.
GateLogin(t) ==
    /\ pc[t] = "gate_login"
    /\ \E ok \in BOOLEAN :
         /\ calls' = [calls EXCEPT ![t] = Append(@, Call("login", ok, "", "", 0))]
         /\ IF ok
            THEN /\ pc' = [pc EXCEPT ![t] = "gate_token"]
                 /\ UNCHANGED <<gateRes, login_lock>>
            ELSE /\ GateReturn(t, "fail_broker")
                 /\ login_lock' = LockAfterRaise(login_lock, t)
    /\ UNCHANGED <<config, now, seen, logged_in, req, started, history, pure>>

\* Lines 37-38: wb.get_trade_token, then the flag is set and the lock freed.
GateToken(t) ==
    /\ pc[t] = "gate_token"
    /\ login_lock' = {}
    /\ \E ok \in BOOLEAN :
         /\ calls' = [calls EXCEPT ![t] = Append(@, Call("get_trade_token", ok, "", "", 0))]
         /\ logged_in' = FlagAfterToken(logged_in, ok)
         /\ IF ok
            THEN GateReturn(t, "logged")
            ELSE GateReturn(t, "fail_broker")
    /\ UNCHANGED <<config, now, seen, req, started, history, pure>>

\* A thread other than a trade handler calls lazy_login().
GateCall(t) ==
    /\ pc[t] \in {"idle", "gate_done"}
    /\ ~req[t].valid
    /\ started < MaxGateCalls
    /\ started' = started + 1
    /\ pc' = [pc EXCEPT ![t] = "gate"]
    /\ gateRes' = [gateRes EXCEPT ![t] = "none"]
    /\ UNCHANGED <<config, now, seen, session, req, calls, history, pure>>

(***************************************************************************)
(* trade, lines 191-197: the gate's result and the product branch          *)
(***************************************************************************)
\* AfterGate with the exception of lazy_login swallowed.
AfterGate_IgnoreFailure(failed, product) ==
    IF product = "option" THEN "chain" ELSE "equity"

\* Where the handler goes when lazy_login is over.
AfterGate(failed, product) ==
    IF failed THEN "503"
    ELSE IF product = "option" THEN "chain"
    ELSE "equity"

TradeGateDone(t) ==
    /\ pc[t] = "gate_done"
    /\ req[t].valid
    /\ LET step == AfterGate(GateFailed(t), Val(req[t].sig).product)
       IN  IF step = "503"
           THEN Finish(t, req[t], "503", "webull_login_required")
           ELSE /\ pc' = [pc EXCEPT ![t] = step]
                /\ UNCHANGED <<req, failed503>>
    /\ UNCHANGED <<config, now, seen, session, calls, gateRes, started,
                   admittedAt, overlap, pure>>

(***************************************************************************)
(* pick_option_contract, lines 94-161                                      *)
(***************************************************************************)
\* Expiry dates of the chain, as the broker names them.
Dates == {"", "garbage", "d+3", "d+30"}

\* time.strptime(ed, "%Y-%m-%d") succeeds.
Parses(ed) == ed \in {"d+3", "d+30"}

\* (mktime(strptime(ed)) - today) / 86400, in whole days.
Dte(ed) == IF ed = "d+3" THEN 3 ELSE 30

\* Lines 112-126: the first expiry inside the DTE window, None if there is none.
RECURSIVE FirstInWindow(_)
FirstInWindow(exps) ==
    IF exps = <<>> THEN None
    ELSE LET ed == Head(exps)
         IN  IF ed # "" /\ Parses(ed) /\ 0 < Dte(ed) /\ Dte(ed) <= DEFAULT_DTE_MAX
             THEN Some(ed)
             ELSE FirstInWindow(Tail(exps))

\* Lines 112-129: target_exp; the first listed expiry when the window misses.
TargetExp(exps) ==
    IF ~IsNone(FirstInWindow(exps)) THEN Val(FirstInWindow(exps)) ELSE Head(exps)

Abs(x) == IF x < 0 THEN -x ELSE x

Leg(delta, latestPrice, contractId) ==
    [delta |-> delta, latestPrice |-> latestPrice, contractId |-> contractId]

Item(strikePrice, call, put) ==
    [strikePrice |-> strikePrice, call |-> call, put |-> put]

\* Lines 139-155: the candidates parsed from the quote items, in input order.
RECURSIVE Cands(_, _, _)
Cands(items, right, target_exp) ==
    IF items = <<>> THEN <<>>
    ELSE LET item == Head(items)
             leg  == IF right = "CALL" THEN item.call ELSE item.put
             rest == Cands(Tail(items), right, target_exp)
         IN  IF IsNone(leg) \/ Val(leg).contractId = ""
             THEN rest
             ELSE <<[contractId |-> Val(leg).contractId,
                     strike     |-> item.strikePrice,
                     delta      |-> Abs(Val(leg).delta),
                     last       |-> Val(leg).latestPrice,
                     expiry     |-> target_exp]>> \o rest

\* The sort key abs(x['delta'] - DEFAULT_DELTA_TARGET) is a float.  For deltas
\* of two decimals between 0.00 and 1.00 it orders as the decimal distance
\* does, except between the two deltas at one decimal distance k/100 from
\* 0.30: there the floats differ for the k below (0.15 gives 0.15 and 0.45
\* gives 0.15000000000000002) and are equal for every other k (0.25, 0.35).
HighSideFarther == {2, 3, 4, 7, 8, 9, 10, 13, 14, 15, 16, 20, 21, 22, 23, 24, 25, 26}
LowSideFarther  == {27}

\* The key of line 160, on a scale that keeps the order of the floats.
Dist(c) ==
    LET k == Abs(c.delta - DEFAULT_DELTA_TARGET)
    IN  2 * k + (IF \/ c.delta > DEFAULT_DELTA_TARGET /\ k \in HighSideFarther
                    \/ c.delta < DEFAULT_DELTA_TARGET /\ k \in LowSideFarther
                 THEN 1 ELSE 0)

\* An insertion that puts c in front of the elements with an equal key.
RECURSIVE InsertByDist_Unstable(_, _)
InsertByDist_Unstable(c, sorted) ==
    IF sorted = <<>> THEN <<c>>
    ELSE IF Dist(Head(sorted)) < Dist(c)
         THEN <<Head(sorted)>> \o InsertByDist_Unstable(c, Tail(sorted))
         ELSE <<c>> \o sorted

\* list.sort(key=...) is stable: c goes behind every element whose key is not larger.
RECURSIVE InsertByDist(_, _)
InsertByDist(c, sorted) ==
    IF sorted = <<>> THEN <<c>>
    ELSE IF Dist(Head(sorted)) <= Dist(c)
         THEN <<Head(sorted)>> \o InsertByDist(c, Tail(sorted))
         ELSE <<c>> \o sorted

RECURSIVE SortByDist(_)
SortByDist(cands) ==
    IF cands = <<>> THEN <<>>
    ELSE InsertByDist(cands[Len(cands)], SortByDist(SubSeq(cands, 1, Len(cands) - 1)))

\* Lines 160-161.
BestCand(cands) == SortByDist(cands)[1]

\* What wb.get_options can do: raise, return nothing usable, or list expiries.
ChainResps ==
    { [kind |-> "raise", list |-> <<>>],
      [kind |-> "nodata", list |-> <<>>],
      [kind |-> "ok", list |-> <<>>],
      [kind |-> "ok", list |-> <<"d+30", "garbage", "d+3">>],
      [kind |-> "ok", list |-> <<"", "d+30">>] }

QuotesA == << Item(400, Some(Leg(22, 250, "C400")), Some(Leg(-45, 0, "P400"))),
              Item(410, Some(Leg(31, 125, "C410")), None),
              Item(420, Some(Leg(45, 50, "C420")), Some(Leg(-15, 600000, "P420"))) >>

QuotesB == << Item(400, None, Some(Leg(-30, 75, ""))),
              Item(410, Some(Leg(35, 0, "C410")), None),
              Item(420, Some(Leg(-25, 250, "C420")), None) >>

\* What wb.get_option_quote can do: raise, return nothing, or return quotes.
QuoteResps ==
    { [kind |-> "raise", data |-> <<>>],
      [kind |-> "empty", data |-> <<>>],
      [kind |-> "ok", data |-> QuotesA],
      [kind |-> "ok", data |-> QuotesB] }

\* Line 198.
RightOf(sig) == IF IsNone(sig.right) THEN sig.bias ELSE Val(sig.right)

\* Line 209: `sig.contracts or contracts_from_notional(...)`.
ContractsFor(sig, premium) ==
    IF IsNone(sig.contracts) \/ Val(sig.contracts) = 0
    THEN contracts_from_notional(NOTIONAL_DEFAULT, premium)
    ELSE Val(sig.contracts)

\* The check of line 210 left out.
ContractsOk_Any(contracts) == TRUE

\* Line 210: a count that is not positive raises.
ContractsOk(contracts) == contracts > 0

\* The equity quantity sized without the signal's price.
EquityQty_NoPrice(sig) == shares_from_notional(NOTIONAL_DEFAULT, PX_FLOOR)

\* Lines 226, 234, 242.
EquityQty(sig) == shares_from_notional(NOTIONAL_DEFAULT, Max(sig.price, PX_FLOOR))

\* Lines 100-129: wb.get_options and the choice of the expiry.
PickChain(t) ==
    /\ pc[t] = "chain"
    /\ \E resp \in ChainResps :
         LET sig == Val(req[t].sig)
             ok  == resp.kind = "ok"
         IN
         /\ calls' = [calls EXCEPT ![t] =
                        Append(@, Call("get_options", resp.kind # "raise", sig.symbol, "", 0))]
         /\ IF ok /\ resp.list # <<>>
            THEN /\ pc' = [pc EXCEPT ![t] = "quote"]
                 /\ req' = [req EXCEPT ![t].target_exp = Some(TargetExp(resp.list))]
            ELSE /\ pc' = [pc EXCEPT ![t] = "fallback"]
                 /\ req' = [req EXCEPT ![t].reason = "options_unavailable"]
    /\ UNCHANGED <<config, now, seen, session, gateRes, started, history, pure>>

\* Lines 132-161 and 208-211: wb.get_option_quote, the selection and the sizing.
PickQuote(t) ==
    /\ pc[t] = "quote"
    /\ \E resp \in QuoteResps :
         LET sig       == Val(req[t].sig)
             cands     == Cands(resp.data, RightOf(sig), Val(req[t].target_exp))
             chosen    == BestCand(cands)
             premium   == Max(chosen.last, PREMIUM_FLOOR)
             contracts == ContractsFor(sig, premium)
         IN
         /\ calls' = [calls EXCEPT ![t] =
                        Append(@, Call("get_option_quote", resp.kind # "raise", sig.symbol, "", 0))]
         /\ IF resp.kind # "ok" \/ cands = <<>>
            THEN /\ pc' = [pc EXCEPT ![t] = "fallback"]
                 /\ req' = [req EXCEPT ![t].reason = "options_unavailable"]
            ELSE IF ~ContractsOk(contracts)
            THEN /\ pc' = [pc EXCEPT ![t] = "fallback"]
                 /\ req' = [req EXCEPT ![t].reason = "options_unavailable",
                                       ![t].chosen = Some(chosen),
                                       ![t].contracts = contracts]
            ELSE /\ pc' = [pc EXCEPT ![t] = "place_option"]
                 /\ req' = [req EXCEPT ![t].chosen = Some(chosen),
                                       ![t].contracts = contracts]
    /\ UNCHANGED <<config, now, seen, session, gateRes, started, history, pure>>

(***************************************************************************)
(* trade, lines 214-247: order placement                                   *)
(***************************************************************************)
\* Lines 215-223: wb.place_order_option_paper.
PlaceOption(t) ==
    /\ pc[t] = "place_option"
    /\ \E ok \in BOOLEAN :
         LET sig == Val(req[t].sig)
         IN
         /\ calls' = [calls EXCEPT ![t] =
                        Append(@, Call("place_order_option_paper", ok, sig.symbol,
                                       Side(sig.bias), req[t].contracts))]
         /\ IF ok
            THEN Finish(t, req[t], "submitted_option", "")
            ELSE /\ pc' = [pc EXCEPT ![t] = "option_failed"]
                 /\ UNCHANGED <<req, failed503>>
    /\ UNCHANGED <<config, now, seen, session, gateRes, started,
                   admittedAt, overlap, pure>>

\* Lines 224-228: the handler of a failed option order.  An exception of its
\* equity order is raised inside the outer try and lands in line 232.
OptionFailedFallback(t) ==
    /\ pc[t] = "option_failed"
    /\ \E ok \in BOOLEAN :
         LET sig == Val(req[t].sig)
         IN
         /\ calls' = [calls EXCEPT ![t] =
                        Append(@, Call("place_order_stock_paper", ok, sig.symbol,
                                       Side(sig.bias), EquityQty(sig)))]
         /\ IF ok
            THEN Finish(t, req[t], "fallback_equity", "options_failed")
            ELSE /\ pc' = [pc EXCEPT ![t] = "fallback"]
                 /\ req' = [req EXCEPT ![t].reason = "options_unavailable"]
                 /\ UNCHANGED failed503
    /\ UNCHANGED <<config, now, seen, session, gateRes, started,
                   admittedAt, overlap, pure>>

\* The fallback that reports fallback_equity whatever its order did.
FallbackOutcome_Swallow(ok) == "fallback_equity"

\* Lines 235-239: the reply of the fallback, by the result of its equity order.
FallbackOutcome(ok) == IF ok THEN "fallback_equity" ELSE "502"

\* Lines 232-239: the handler of any other exception of the option leg.
Fallback(t) ==
    /\ pc[t] = "fallback"
    /\ \E ok \in BOOLEAN :
         LET sig == Val(req[t].sig)
         IN
         /\ calls' = [calls EXCEPT ![t] =
                        Append(@, Call("place_order_stock_paper", ok, sig.symbol,
                                       Side(sig.bias), EquityQty(sig)))]
         /\ IF FallbackOutcome(ok) = "fallback_equity"
            THEN Finish(t, req[t], "fallback_equity", "options_unavailable")
            ELSE Finish(t, req[t], "502", "webull_equity_fallback_failed")
    /\ UNCHANGED <<config, now, seen, session, gateRes, started,
                   admittedAt, overlap, pure>>

\* Lines 242-247: the equity path.
Equity(t) ==
    /\ pc[t] = "equity"
    /\ \E ok \in BOOLEAN :
         LET sig == Val(req[t].sig)
         IN
         /\ calls' = [calls EXCEPT ![t] =
                        Append(@, Call("place_order_stock_paper", ok, sig.symbol,
                                       Side(sig.bias), EquityQty(sig)))]
         /\ IF ok
            THEN Finish(t, req[t], "submitted_equity", "")
            ELSE Finish(t, req[t], "502", "webull_equity_error")
    /\ UNCHANGED <<config, now, seen, session, gateRes, started,
                   admittedAt, overlap, pure>>

\* The response was sent; the handler's locals are gone.
Respond(t) ==
    /\ pc[t] = "done"
    /\ pc' = [pc EXCEPT ![t] = "idle"]
    /\ req' = [req EXCEPT ![t] = NoReq]
    /\ calls' = [calls EXCEPT ![t] = <<>>]
    /\ gateRes' = [gateRes EXCEPT ![t] = "none"]
    /\ UNCHANGED <<config, now, seen, session, started, history, pure>>

Next ==
    \/ \E t \in Threads :
         \/ ReceiveAlone(t)
         \/ TradeAdmit(t)
         \/ GateFast(t)
         \/ GateAcquire(t)
         \/ GateLogin(t)
         \/ GateToken(t)
         \/ TradeGateDone(t)
         \/ PickChain(t)
         \/ PickQuote(t)
         \/ PlaceOption(t)
         \/ OptionFailedFallback(t)
         \/ Fallback(t)
         \/ Equity(t)
         \/ Respond(t)

Spec == Init /\ [][Next]_vars

(***************************************************************************)
(* The handler under fair scheduling, with one request for each of its     *)
(* paths.                                                                  *)
(***************************************************************************)
LiveHeaders == {"valid", "invalid"}

\* Equity and option signals, a neutral one and one for a crypto symbol.
LiveSignals ==
    {s \in Signals :
        /\ s.price = 0
        /\ s.right = None
        /\ s.contracts \in {None, Some(-1)}
        /\ \/ s.bias = "CALL" /\ s.symbol = "QQQ"
           \/ /\ s.idempotency_key = "k1"
              /\ s.product = "equity"
              /\ \/ s.bias = "NEUTRAL" /\ s.symbol = "QQQ"
                 \/ s.bias = "CALL" /\ s.symbol # "QQQ"}

LiveBodies == {None} \cup {Some(s) : s \in LiveSignals}

LiveElapsed == {1}

TradeAdmitLive(t) == TradeAdmitFrom(t, LiveHeaders, LiveBodies, LiveElapsed)

\* The steps of the handler of t once its request has arrived.
Handler(t) ==
    \/ TradeAdmitLive(t)
    \/ GateFast(t)
    \/ GateAcquire(t)
    \/ GateLogin(t)
    \/ GateToken(t)
    \/ TradeGateDone(t)
    \/ PickChain(t)
    \/ PickQuote(t)
    \/ PlaceOption(t)
    \/ OptionFailedFallback(t)
    \/ Fallback(t)
    \/ Equity(t)

LiveNext ==
    \E t \in Threads :
       \/ ReceiveAlone(t)
       \/ Handler(t)
       \/ Respond(t)

\* The event loop resumes a suspended handler and every broker call returns
\* or raises: a handler that can take a step takes it.
SpecLive == Init /\ [][LiveNext]_vars /\ \A t \in Threads : WF_vars(Handler(t))

(***************************************************************************)
(* Overlapping requests: several handlers suspended in line 170 at once.   *)
(* With DRY_RUN on a handler ends in line 189 at the latest, after is_dup. *)
(***************************************************************************)
InitLoop == Init /\ dryRun

LoopNext ==
    \E t \in Threads :
       \/ Receive(t)
       \/ TradeAdmit(t)
       \/ Respond(t)

SpecLoop == InitLoop /\ [][LoopNext]_vars

(***************************************************************************)
(* lazy_login called by concurrent threads                                 *)
(***************************************************************************)
GateNext ==
    \E t \in Threads :
       \/ GateCall(t)
       \/ GateFast(t)
       \/ GateAcquire(t)
       \/ GateLogin(t)
       \/ GateToken(t)

SpecGate == Init /\ [][GateNext]_vars

(***************************************************************************)
(* The sizing functions on their own                                       *)
(***************************************************************************)
Notionals == {0, 25, 100, 200, 24975, 25000, 500000, 500025}
Pxs       == {-100, 0, 1, 25, 250, 25000, 500000, 600000}

SizerInit ==
    /\ InitRouter
    /\ picker = NoPicker
    /\ lookup = NoLookup
    /\ sizer \in [notional : Notionals, px : Pxs, shares : {0}, contracts : {0},
                  done : {FALSE}]

Size ==
    /\ ~sizer.done
    /\ sizer' = [sizer EXCEPT
                   !.shares = shares_from_notional(sizer.notional, sizer.px),
                   !.contracts = contracts_from_notional(sizer.notional, sizer.px),
                   !.done = TRUE]
    /\ UNCHANGED <<config, now, seen, session, pc, req, calls, gateRes, started,
                   history, picker, lookup>>

SizerNext == Size

SpecSizer == SizerInit /\ [][SizerNext]_vars

(***************************************************************************)
(* is_dup on its own, lines 71-79: a sequence of lookups                   *)
(***************************************************************************)
MaxLookups == 4

\* is_dup(key), called d seconds after the clock was last read.  `replays`
\* counts the True answers for a key since is_dup last answered False for it.
Lookup ==
    /\ started < MaxLookups
    /\ started' = started + 1
    /\ \E key \in Keys, d \in Elapsed :
         LET time == now + d
             dup  == is_dup_result(seen, key, time)
         IN  /\ now' = time
             /\ seen' = is_dup_seen(seen, key, time)
             /\ admittedAt' = IF dup THEN admittedAt
                              ELSE [k \in DOMAIN admittedAt \cup {key} |->
                                      IF k = key THEN time ELSE admittedAt[k]]
             /\ lookup' = [key |-> key, dup |-> dup,
                           priorAge |-> PriorAge(key, time),
                           replays |-> [lookup.replays EXCEPT
                                          ![key] = IF dup THEN @ + 1 ELSE 0],
                           replayed |-> lookup.replays[key]]
    /\ UNCHANGED <<config, session, pc, req, calls, gateRes, failed503, overlap,
                   sizer, picker>>

DedupNext == Lookup

SpecDedup == Init /\ [][DedupNext]_vars

(***************************************************************************)
(* The candidate ranking on its own, lines 157-161                         *)
(***************************************************************************)
MaxCands == 3

\* abs(float(leg.get('delta'))) of the surviving candidates, in hundredths.
Deltas == {15, 22, 25, 31, 35, 45}

DeltaLists == UNION {[1..n -> Deltas] : n \in 1..MaxCands}

\* The candidates of lines 149-155 for a list of deltas; the contract id
\* tells the place in the broker's order.
CandList(ds) ==
    [i \in 1..Len(ds) |-> [contractId |-> i, strike |-> 400 + i,
                           delta |-> ds[i], last |-> 125, expiry |-> "d+3"]]

SelectorInit ==
    /\ InitRouter
    /\ sizer = NoSizer
    /\ lookup = NoLookup
    /\ picker \in {[cands |-> CandList(ds), chosen |-> None, done |-> FALSE] :
                    ds \in DeltaLists}

Pick ==
    /\ ~picker.done
    /\ picker' = [picker EXCEPT !.chosen = Some(BestCand(picker.cands)),
                                !.done = TRUE]
    /\ UNCHANGED <<config, now, seen, session, pc, req, calls, gateRes, started,
                   history, sizer, lookup>>

SelectorNext == Pick

SpecSelector == SelectorInit /\ [][SelectorNext]_vars

(***************************************************************************)
(* Properties                                                              *)
(***************************************************************************)
Done(t)    == pc[t] = "done"
Sig(t)     == Val(req[t].sig)
KeyOf(t)   == Sig(t).idempotency_key
Caps(t)    == {calls[t][i].cap : i \in DOMAIN calls[t]}
Count(t, cap) == Cardinality({i \in DOMAIN calls[t] : calls[t][i].cap = cap})

\* The calls of a capability made by all threads, and the failed ones among them.
Total(cap) ==
    Cardinality({<<t, i>> \in Threads \X (1..(2 * MaxGateCalls)) :
                   i \in DOMAIN calls[t] /\ calls[t][i].cap = cap})
Failed(cap) ==
    Cardinality({<<t, i>> \in Threads \X (1..(2 * MaxGateCalls)) :
                   i \in DOMAIN calls[t] /\ calls[t][i].cap = cap /\ ~calls[t][i].ok})

SessionCaps == {"login", "get_trade_token"}
DataCaps    == {"get_options", "get_option_quote"}
OrderCaps   == {"place_order_option_paper", "place_order_stock_paper"}

\* a * b > n for a, b >= 1 and n within the amounts of the model; the product
\* is formed only where it fits a 32-bit integer.
ProdAbove(a, b, n) == a > 2000000000 \div b \/ a * b > n

\* q = max(1, floor(n / d)) for n >= 0 and a divisor d >= 1, said without
\* dividing: q * d <= n < (q + 1) * d unless the floor is below 1.  The
\* divisor PX_FLOOR stands for the float 0.01, d plus a little.
IsSized(q, n, d) ==
    /\ q >= 1
    /\ IF d = PX_FLOOR
       THEN ProdAbove(q + 1, d, n - 1) /\ (q = 1 \/ ~ProdAbove(q, d, n - 1))
       ELSE ProdAbove(q + 1, d, n) /\ (q = 1 \/ ~ProdAbove(q, d, n))

\* C1: a request whose key was admitted no more than TTL seconds before gets
\* duplicate_ignored and makes no broker call; once more than TTL seconds
\* have passed since that admission the key is admitted again.
C1_DuplicateWithinTtl ==
    \A t \in Threads :
        (req[t].valid /\ ~IsNone(req[t].priorAge)) =>
            /\ Val(req[t].priorAge) <= TTL =>
                 /\ ~req[t].admitted
                 /\ calls[t] = <<>>
                 /\ pc[t] = "done"
                 /\ req[t].outcome = "duplicate_ignored"
            /\ Val(req[t].priorAge) > TTL =>
                 /\ req[t].admitted
                 /\ req[t].outcome # "duplicate_ignored"
                 /\ admittedAt[KeyOf(t)] = now

C1_Witness ==
    \E t \in Threads :
        /\ Done(t)
        /\ req[t].priorAge = Some(TTL)
        /\ req[t].outcome = "duplicate_ignored"

\* C2: in one request the option order call is made at most once and the
\* equity order call is made at most once (one fallback, no retry).
C2_NoRetries ==
    \A t \in Threads :
        /\ Count(t, "place_order_option_paper") <= 1
        /\ Count(t, "place_order_stock_paper") <= 1

\* C3: after a failed option order for a selected contract, the next broker
\* call is an equity order for the same symbol and side sized as
\* sharesFromNotional(default notional, signal price); the request ends with
\* the status fallback_equity when an equity order succeeds, and in no other
\* status (it fails with the 502 otherwise).
C3_OptionFailureFallsBack ==
    \A t \in Threads :
        \A i \in DOMAIN calls[t] :
            (calls[t][i].cap = "place_order_option_paper" /\ ~calls[t][i].ok) =>
                /\ ~IsNone(req[t].chosen)
                /\ pc[t] \in {"option_failed", "fallback", "done"}
                /\ pc[t] # "option_failed" => Len(calls[t]) > i
                /\ \A j \in DOMAIN calls[t] : j > i =>
                     /\ calls[t][j].cap = "place_order_stock_paper"
                     /\ calls[t][j].symbol = Sig(t).symbol
                     /\ calls[t][j].action = calls[t][i].action
                     /\ IsSized(calls[t][j].qty, NOTIONAL_DEFAULT,
                                Max(Sig(t).price, PX_FLOOR))
                /\ Done(t) =>
                     /\ req[t].outcome \in {"fallback_equity", "502"}
                     /\ req[t].outcome = "fallback_equity"
                          <=> calls[t][Len(calls[t])].ok

C3_Witness ==
    \E t \in Threads :
        /\ Done(t)
        /\ req[t].outcome = "fallback_equity"
        /\ req[t].reason = "options_failed"
        /\ Sig(t).price > PX_FLOOR
        /\ \E i \in DOMAIN calls[t] :
             calls[t][i].cap = "place_order_option_paper" /\ ~calls[t][i].ok

\* C4: when lazy_login is called by concurrent threads while not logged in
\* and the broker calls succeed, wb.login and wb.get_trade_token are each
\* called once in total and every call of lazy_login returns with the flag set.
C4_OneLogin ==
    (credsSet /\ Failed("login") = 0 /\ Failed("get_trade_token") = 0) =>
        /\ Total("login") <= 1
        /\ Total("get_trade_token") <= Total("login")
        /\ \A t \in Threads :
             /\ ~GateFailed(t)
             /\ GateOk(t) =>
                  /\ logged_in
                  /\ Total("login") = 1
                  /\ Total("get_trade_token") = 1

C4_Witness ==
    /\ Failed("login") = 0
    /\ Failed("get_trade_token") = 0
    /\ Total("login") = 1
    /\ \E t \in Threads : gateRes[t] = "logged" /\ pc[t] = "gate_done"
    /\ \E t \in Threads : gateRes[t] = "rechecked" /\ pc[t] = "gate_done"

EarlyOutcomes == {"401", "400", "duplicate_ignored", "ignored", "422"}

\* C5 as stated: a request that ends with a bad signature, a bad payload, a
\* duplicate, a neutral bias or an unsupported symbol leaves the set of fresh
\* keys and the session flag as they were and makes no broker call.
C5_NoSideEffects ==
    \A t \in Threads :
        (Done(t) /\ req[t].outcome \in EarlyOutcomes) =>
            /\ req[t].freshAfter = req[t].freshBefore
            /\ logged_in = req[t].loggedBefore
            /\ calls[t] = <<>>

\* C5 amended: such a request makes no broker call and leaves the session
\* flag as it was; the set of fresh keys is unchanged after a bad signature,
\* a bad payload or a duplicate, and has gained the request's key after a
\* neutral bias or an unsupported symbol.
C5_EarlyExitEffects ==
    \A t \in Threads :
        (Done(t) /\ req[t].outcome \in EarlyOutcomes) =>
            /\ logged_in = req[t].loggedBefore
            /\ calls[t] = <<>>
            /\ gateRes[t] = "none"
            /\ req[t].outcome \in {"401", "400", "duplicate_ignored"} =>
                 req[t].freshAfter = req[t].freshBefore
            /\ req[t].outcome \in {"ignored", "422"} =>
                 /\ KeyOf(t) \notin req[t].freshBefore
                 /\ req[t].freshAfter = req[t].freshBefore \cup {KeyOf(t)}

C5_Witness ==
    \E t \in Threads :
        /\ Done(t)
        /\ req[t].outcome = "ignored"
        /\ req[t].freshBefore # {}
        /\ req[t].freshAfter # req[t].freshBefore

\* C6: with the credentials configured, a request whose key was last admitted
\* by a request that failed with the 503 is not answered duplicate_ignored
\* (it goes on to the gate and to order placement).
C6_RetryAfter503 ==
    \A t \in Threads :
        (credsSet /\ Done(t) /\ req[t].valid /\ KeyOf(t) \in failed503) =>
            req[t].outcome # "duplicate_ignored"

Statuses == {"dry_run", "submitted_equity", "submitted_option", "fallback_equity",
             "duplicate_ignored", "ignored"}

\* C8 as stated: with DRY_RUN on, the gate and the broker are never called
\* and the status of every reply is dry_run.
C8_AlwaysDryRun ==
    dryRun =>
        \A t \in Threads :
            /\ calls[t] = <<>>
            /\ gateRes[t] = "none"
            /\ (Done(t) /\ req[t].outcome \in Statuses) => req[t].outcome = "dry_run"

\* C8 amended: with DRY_RUN on, the gate and the broker are never called for
\* any input, and a request that passes the signature, payload, duplicate,
\* bias and symbol checks gets the status dry_run; the outcomes of those
\* checks are the only other ones.
C8_DryRunNoDispatch ==
    dryRun =>
        /\ ~logged_in
        /\ login_lock = {}
        /\ \A t \in Threads :
             /\ calls[t] = <<>>
             /\ gateRes[t] = "none"
             /\ pc[t] \in {"idle", "recv", "done"}
             /\ Done(t) => req[t].outcome \in EarlyOutcomes \cup {"dry_run"}
             /\ (Done(t) /\ req[t].admitted /\ Sig(t).bias \in {"CALL", "PUT"}
                   /\ Upper(Sig(t).symbol) \notin CRYPTO) =>
                  req[t].outcome = "dry_run"

C8_Witness ==
    /\ dryRun
    /\ credsSet
    /\ \E t \in Threads :
         Done(t) /\ req[t].outcome = "dry_run" /\ Sig(t).product = "option"

\* The place of a broker capability in the order of the handler's steps.
Rank(cap) ==
    CASE cap = "login" -> 1
      [] cap = "get_trade_token" -> 2
      [] cap = "get_options" -> 3
      [] cap = "get_option_quote" -> 4
      [] cap = "place_order_option_paper" -> 5
      [] cap = "place_order_stock_paper" -> 6

\* C9: a request makes a broker call only after its signature and payload
\* were accepted, is_dup returned False, the bias was CALL or PUT, the symbol
\* was supported and DRY_RUN was off; it fetches a chain or places an order
\* only after lazy_login returned; the calls follow the order of the steps;
\* a request whose lazy_login raised ends with the 503 and places no order.
C9_StepOrder ==
    \A t \in Threads :
        /\ (calls[t] # <<>> \/ pc[t] \notin {"idle", "recv", "done"}
              \/ gateRes[t] # "none") =>
             /\ req[t].valid
             /\ req[t].admitted
             /\ Sig(t).bias \in {"CALL", "PUT"}
             /\ Upper(Sig(t).symbol) \notin CRYPTO
             /\ ~dryRun
        /\ (Caps(t) \cap (DataCaps \cup OrderCaps) # {}) => GateOk(t) /\ logged_in
        /\ \A i, j \in DOMAIN calls[t] :
             i < j => Rank(calls[t][i].cap) <= Rank(calls[t][j].cap)
        /\ GateFailed(t) =>
             /\ pc[t] \in {"gate_done", "done"}
             /\ Caps(t) \subseteq SessionCaps
             /\ Done(t) => req[t].outcome = "503"
        /\ (Done(t) /\ req[t].outcome = "503") => GateFailed(t)

C9_Witness ==
    \E t \in Threads :
        /\ Done(t)
        /\ req[t].outcome = "submitted_option"
        /\ Caps(t) = SessionCaps \cup DataCaps \cup {"place_order_option_paper"}

\* C10: sharesFromNotional(n, p) is max(1, floor(n / max(p, 0.01))) and
\* contractsFromNotional(n, p) is max(1, floor(n / max(100 p, 0.01))); both
\* are at least 1 for every notional >= 0 and every price, 0 and below
\* included; sharesFromNotional(5000, 250) = contractsFromNotional(5000, 2.50) = 20.
C10_Sizer ==
    sizer.done =>
        /\ sizer.shares >= 1
        /\ sizer.contracts >= 1
        /\ IsSized(sizer.shares, sizer.notional, Max(sizer.px, PX_FLOOR))
        /\ IsSized(sizer.contracts, sizer.notional,
                   Max(sizer.px * SHARES_PER_CONTRACT, PX_FLOOR))
        /\ (sizer.notional = 500000 /\ sizer.px = 25000) => sizer.shares = 20
        /\ (sizer.notional = 500000 /\ sizer.px = 250) => sizer.contracts = 20

C10_Witness ==
    /\ sizer.done
    /\ sizer.notional = 500000
    /\ sizer.px = 0
    /\ sizer.shares = 499999
    /\ sizer.contracts = 499999

\* C11: for a non-empty list of candidates the selector returns a candidate
\* whose distance |delta - target| is minimal over the list, and of the
\* candidates at that distance the first in the broker's order; for the
\* deltas 0.22, 0.31, 0.45 and the target 0.30 it returns the 0.31 candidate.
C11_NearestFirst ==
    picker.done =>
        LET cands  == picker.cands
            chosen == Val(picker.chosen)
        IN  /\ chosen.contractId \in DOMAIN cands
            /\ chosen = cands[chosen.contractId]
            /\ \A j \in DOMAIN cands :
                 /\ Dist(chosen) <= Dist(cands[j])
                 /\ j < chosen.contractId => Dist(chosen) < Dist(cands[j])
            /\ [i \in DOMAIN cands |-> cands[i].delta] = <<22, 31, 45>> =>
                 chosen.delta = 31

C11_Witness ==
    /\ picker.done
    /\ [i \in DOMAIN picker.cands |-> picker.cands[i].delta] = <<45, 35, 25>>
    /\ Val(picker.chosen).contractId = 2

\* The threads inside a login attempt: between the entry to line 36 and the
\* return of line 37.
InFlight == {t \in Threads : pc[t] \in {"gate_login", "gate_token"}}

\* C12: at every moment at most one login attempt (wb.login followed by
\* wb.get_trade_token) is in flight, whatever the number of concurrent callers
\* and whether earlier attempts failed; the thread in flight holds the lock.
C12_OneLoginInFlight ==
    /\ Cardinality(InFlight) <= 1
    /\ login_lock = InFlight

C12_Witness ==
    /\ Failed("login") + Failed("get_trade_token") >= 1
    /\ \E t, u \in Threads :
         /\ t # u
         /\ pc[t] = "gate_token"
         /\ pc[u] = "gate_lock"

\* C13: the flag is set only when, in one call of lazy_login, wb.login and
\* then wb.get_trade_token succeeded; a call that finds the credentials
\* missing or whose broker call fails raises with the flag unset by it and
\* the lock free, and no later call returns normally before a login succeeded.
C13_LoginThenToken ==
    /\ logged_in =>
         \E t \in Threads : \E i \in DOMAIN calls[t] :
             /\ i + 1 \in DOMAIN calls[t]
             /\ calls[t][i].cap = "login" /\ calls[t][i].ok
             /\ calls[t][i + 1].cap = "get_trade_token" /\ calls[t][i + 1].ok
    /\ \A t \in Threads :
         /\ gateRes[t] = "fail_creds" => ~credsSet /\ ~logged_in
         /\ gateRes[t] = "fail_broker" =>
              calls[t] # <<>> /\ ~calls[t][Len(calls[t])].ok
         /\ GateFailed(t) => pc[t] = "gate_done" /\ t \notin login_lock
         /\ GateOk(t) => logged_in
         /\ \A i \in DOMAIN calls[t] :
              /\ (calls[t][i].cap = "login" /\ calls[t][i].ok) =>
                   \/ i + 1 \in DOMAIN calls[t]
                      /\ calls[t][i + 1].cap = "get_trade_token"
                   \/ i = Len(calls[t]) /\ pc[t] = "gate_token"
              /\ calls[t][i].cap = "get_trade_token" =>
                   i > 1 /\ calls[t][i - 1].cap = "login" /\ calls[t][i - 1].ok

C13_Witness ==
    \E t \in Threads :
        /\ logged_in
        /\ pc[t] = "gate_done"
        /\ gateRes[t] = "logged"
        /\ Len(calls[t]) = 3
        /\ calls[t][1].cap = "login" /\ ~calls[t][1].ok
        /\ calls[t][2].cap = "login" /\ calls[t][2].ok

\* C14: of the requests that are in flight together and carry one key, is_dup
\* answers False to one and True to the others: a request whose key was not
\* fresh is admitted, and a request whose key was admitted for another
\* request while it was suspended gets duplicate_ignored (unless more than
\* TTL seconds passed before it was resumed).
C14_AtomicDedup ==
    \A t \in Threads :
        req[t].valid =>
            /\ KeyOf(t) \notin req[t].freshBefore => req[t].admitted
            /\ KeyOf(t) \in req[t].rivals =>
                 /\ ~IsNone(req[t].priorAge)
                 /\ Val(req[t].priorAge) <= TTL =>
                      /\ ~req[t].admitted
                      /\ req[t].outcome = "duplicate_ignored"
                 /\ req[t].admitted => Val(req[t].priorAge) > TTL

C14_Witness ==
    \E t \in Threads :
        /\ Done(t)
        /\ req[t].valid
        /\ KeyOf(t) \in req[t].rivals
        /\ req[t].priorAge = Some(1)
        /\ req[t].outcome = "duplicate_ignored"

\* C15: a lookup that answers True leaves the key's timestamp alone: the
\* timestamp of a key in _seen is the time of its last admission; whatever
\* the number of replays, the key is admitted again by the first lookup made
\* more than TTL seconds after that admission, which stamps it with the
\* current time.
C15_NoRefresh ==
    /\ \A k \in DOMAIN seen : k \in DOMAIN admittedAt /\ seen[k] = admittedAt[k]
    /\ lookup.key # "" =>
         /\ lookup.key \in DOMAIN seen
         /\ IF ~IsNone(lookup.priorAge) /\ Val(lookup.priorAge) <= TTL
            THEN /\ lookup.dup
                 /\ seen[lookup.key] = now - Val(lookup.priorAge)
            ELSE /\ ~lookup.dup
                 /\ seen[lookup.key] = now

C15_Witness ==
    /\ ~lookup.dup
    /\ lookup.replayed >= 2
    /\ lookup.priorAge = Some(TTL + 2)
    /\ seen[lookup.key] = now

\* The option leg of t ended without a contract: the chain, its expiries,
\* the quotes or the candidates were unavailable.
SelectionFailed(t) ==
    /\ req[t].valid
    /\ Sig(t).product = "option"
    /\ pc[t] \in {"fallback", "done"}
    /\ Caps(t) \cap DataCaps # {}
    /\ IsNone(req[t].chosen)

\* C16: when the selection fails no option order is placed and one equity
\* order is attempted, sized sharesFromNotional(default notional, signal
\* price); the status is fallback_equity if that order succeeds and the
\* request fails with the 502 only if it fails.
C16_SelectionFailureFallsBack ==
    \A t \in Threads :
        SelectionFailed(t) =>
            /\ Count(t, "place_order_option_paper") = 0
            /\ pc[t] = "fallback" => Count(t, "place_order_stock_paper") = 0
            /\ Done(t) =>
                 LET last == calls[t][Len(calls[t])]
                 IN  /\ Count(t, "place_order_stock_paper") = 1
                     /\ last.cap = "place_order_stock_paper"
                     /\ last.symbol = Sig(t).symbol
                     /\ last.action = Side(Sig(t).bias)
                     /\ IsSized(last.qty, NOTIONAL_DEFAULT, Max(Sig(t).price, PX_FLOOR))
                     /\ last.ok => req[t].outcome = "fallback_equity"
                     /\ ~last.ok => req[t].outcome = "502"

C16_Witness ==
    \E t \in Threads :
        /\ Done(t)
        /\ SelectionFailed(t)
        /\ "get_option_quote" \in Caps(t)
        /\ Sig(t).price > PX_FLOOR
        /\ req[t].outcome = "502"

\* C17: the count of the option order is the signal's `contracts` whenever
\* the signal carries one, and contractsFromNotional(default notional,
\* max(premium, 0.05)) otherwise; a count <= 0 is rejected: the request
\* places no order at all.
C17_ContractCount ==
    \A t \in Threads :
        (req[t].valid /\ Sig(t).product = "option" /\ ~IsNone(req[t].chosen)) =>
            LET premium  == Max(Val(req[t].chosen).last, PREMIUM_FLOOR)
                supplied == ~IsNone(Sig(t).contracts)
            IN  /\ \A i \in DOMAIN calls[t] :
                     calls[t][i].cap = "place_order_option_paper" =>
                         IF supplied
                         THEN calls[t][i].qty = Val(Sig(t).contracts)
                         ELSE IsSized(calls[t][i].qty, NOTIONAL_DEFAULT,
                                      Max(premium * SHARES_PER_CONTRACT, PX_FLOOR))
                /\ (supplied /\ Val(Sig(t).contracts) <= 0) =>
                     Caps(t) \cap OrderCaps = {}

\* C18: every order placement call, on the equity path, the option path and
\* the fallback, carries a quantity >= 1, whatever the signal's price, the
\* premium of the chosen contract and the signal's `contracts`.
C18_PositiveQuantity ==
    \A t \in Threads : \A i \in DOMAIN calls[t] :
        calls[t][i].cap \in OrderCaps => calls[t][i].qty >= 1

C18_Witness ==
    \E t \in Threads :
        /\ Done(t)
        /\ req[t].valid
        /\ Sig(t).product = "option"
        /\ Sig(t).contracts = Some(0)
        /\ Sig(t).price = 0
        /\ ~IsNone(req[t].chosen)
        /\ Val(req[t].chosen).last = 0
        /\ Count(t, "place_order_option_paper") = 1
        /\ Count(t, "place_order_stock_paper") >= 1

\* The order calls of t that succeeded.
Placed(t) == {i \in DOMAIN calls[t] : calls[t][i].cap \in OrderCaps /\ calls[t][i].ok}

\* C19: a request places at most one order successfully and its status says
\* which: submitted_option only after a successful option order and no
\* equity order; submitted_equity only for the product equity after its one
\* equity order succeeded; fallback_equity only for the product option after
\* the selection or the option order failed and an equity order succeeded.
C19_StatusMatchesOrder ==
    \A t \in Threads :
        /\ Cardinality(Placed(t)) <= 1
        /\ (Done(t) /\ req[t].outcome = "submitted_option") =>
             /\ \E i \in Placed(t) : calls[t][i].cap = "place_order_option_paper"
             /\ Count(t, "place_order_stock_paper") = 0
        /\ (Done(t) /\ req[t].outcome = "submitted_equity") =>
             /\ Sig(t).product = "equity"
             /\ Count(t, "place_order_stock_paper") = 1
             /\ Count(t, "place_order_option_paper") = 0
             /\ \E i \in Placed(t) : calls[t][i].cap = "place_order_stock_paper"
        /\ (Done(t) /\ req[t].outcome = "fallback_equity") =>
             /\ Sig(t).product = "option"
             /\ \/ SelectionFailed(t)
                \/ \E i \in DOMAIN calls[t] :
                      calls[t][i].cap = "place_order_option_paper" /\ ~calls[t][i].ok
             /\ \E i \in Placed(t) : calls[t][i].cap = "place_order_stock_paper"

Terminals == {"401", "400", "duplicate_ignored", "ignored", "422", "dry_run", "503",
              "submitted_equity", "submitted_option", "fallback_equity", "502"}

\* C20: as long as every broker call returns or raises, every request that
\* arrived gets its response, with one of the terminal outcomes; the lock is
\* held only by a thread inside a login attempt, so it is free again after a
\* failed login and no later request waits for it forever.
C20_Terminates ==
    /\ [](login_lock = InFlight)
    /\ [](\A t \in Threads : Done(t) => req[t].outcome \in Terminals)
    /\ \A t \in Threads : (pc[t] = "recv") ~> Done(t)

C20_Witness ==
    \E t \in Threads :
        /\ Done(t)
        /\ failed503 # {}
        /\ gateRes[t] = "logged"
        /\ req[t].outcome = "submitted_equity"

====
